---- MODULE Spec2Model ----
(***************************************************************************)
(* Memory Scramble board (lab3-fresh/src/board.ts): the shared grid of     *)
(* cards, the per-player turn stacks and removal queues, the per-cell wait *)
(* queues and the watch queue.  Every asynchronous operation is cut at its *)
(* await points: one action is the code that runs between two awaits, and  *)
(* the calls of different players interleave at those points.  Each player *)
(* has at most one call in flight.                                         *)
(***************************************************************************)
EXTENDS Integers, Sequences, FiniteSets, TLC

\* ------------------------------------------------------------------ bounds
\* Number of flip calls started in one behaviour of Spec; SpecDeep starts one
\* more.
MaxCalls == 4

\* The board file: rows of card values (2x2, A B / A B, as in the tests).
Layout == << <<"A", "B">>, <<"A", "B">> >>

\* Player ids registered with addPlayer before play starts.
Players == {"alice", "bob"}

\* --------------------------------------------------------------- positions
Rows == Len(Layout)
Cols == Len(Layout[1])

\* Position: {row, col} of board.ts, written <<row, col>>, 0-indexed.
AllPos == (0 .. Rows - 1) \X (0 .. Cols - 1)

\* Positions outside the board that a caller may pass all the same: a column
\* past the end of row 0, and a row past the last one.
StrayPos == {<<0, Cols>>, <<Rows, 0>>}

\* The keys `${row},${column}` of the wait queues.
Keys == AllPos \cup StrayPos

\* "no position": the value of an unused local.
NoPos == << >>

\* cards is a flat array indexed by row * cols + col.
Idx(pos) == pos[1] * Cols + pos[2]

CellIdx == 0 .. Rows * Cols - 1

\* An empty space: cards[i] === undefined.
NoCard == [exists |-> FALSE, value |-> "", faceUp |-> FALSE, isBusy |-> FALSE]

\* new Card(value, false, false), as parseFromFile builds each card.
NewCard(v) == [exists |-> TRUE, value |-> v, faceUp |-> FALSE, isBusy |-> FALSE]

\* A call that is not running: every local at its default.  Besides the
\* locals of flip (target, isBusy, first, second, the waitForCardAvailable
\* call site) a call records what the properties below speak about: the case
\* it started in (kind), the first card the caller held at the call (first0),
\* the players that controlled the target at the call and have controlled it
\* ever since (holders; blocked tells whether there was one), and its result.
\* The record of a finished call is kept for the one state that follows its
\* return.
\* No non-matching pair is waiting to be retired.
NoPair == [cells |-> {}, taken |-> {}]

IdleCall == [pc |-> "idle", target |-> NoPos, isBusy |-> FALSE, site |-> 0,
             first |-> NoPos, second |-> NoPos, result |-> "none",
             kind |-> "none", first0 |-> NoPos, second0 |-> NoPos,
             own |-> FALSE, holders |-> {}, blocked |-> FALSE, due |-> {},
             orphaned |-> FALSE, late |-> FALSE, granted |-> FALSE,
             state0 |-> "none",
             i |-> 0, up |-> FALSE, val |-> "", snapshot |-> << >>, current |-> << >>,
             view |-> << >>, view0 |-> << >>, board0 |-> << >>,
             turned |-> {}, unwoken |-> {}, moved |-> FALSE, taken |-> FALSE,
             f |-> "", groups |-> << >>, invoked |-> << >>, values0 |-> << >>]

VARIABLES
    cards,            \* Board.cards
    players,          \* Board.players: the ids of the player records, in order
    playerTurnStack,  \* Board.playerTurnStack
    removalQueue,     \* Board.removalQueue
    cardWaitQueue,    \* Board.cardWaitQueue: position -> waiting calls, in order
    watchQueue,       \* Board.watchQueue
    call,             \* the call each player has in flight, with its locals
    solo,             \* the player whose call has run alone since it started
    lastPair,         \* per player: the cells of the non-matching pair not yet
                      \* retired, and those of them another player took since
    callsLeft,        \* calls that may still be started
    instance,         \* Board.instance: << >> for null, else <<size>>
    outcome           \* how the constructor or getInstance, called in the step
                      \* that led here, ended

vars == <<cards, players, playerTurnStack, removalQueue, cardWaitQueue,
          watchQueue, call, solo, lastPair, callsLeft, instance, outcome>>

\* Board.instance of a board built from the board file.
Parsed == << [row |-> Rows, col |-> Cols] >>

\* The step called neither the constructor nor getInstance.
NoOutcome == [op |-> "none", result |-> "none"]

\* The shared state as one record, so that the code between two awaits can be
\* written as a composition of the functions it calls.
Cur == [cards |-> cards, stack |-> playerTurnStack, rq |-> removalQueue,
        cwq |-> cardWaitQueue, wq |-> watchQueue, call |-> call,
        pair |-> lastPair]

\* ------------------------------------------------------------------- cards
\* getCards(row, column)
CardAt(S, pos) ==
    IF pos \in AllPos \/ Idx(pos) \in DOMAIN S.cards THEN S.cards[Idx(pos)] ELSE NoCard

\* Card.getValue(): undefined ("") unless the card is face up.
GetValue(c) == IF c.faceUp THEN c.value ELSE ""

\* card.setIsBusy(b) through a reference taken earlier: the write reaches the
\* board only while the cell still holds that card (a removed card is a
\* detached object, and cells are never refilled).
SetIsBusy(S, pos, b) ==
    IF CardAt(S, pos).exists
    THEN [S EXCEPT !.cards[Idx(pos)].isBusy = b]
    ELSE S

\* The calls of watch whose resolver is on the watch queue.
Pending(S) == {S.wq[k] : k \in 1 .. Len(S.wq)}

\* A pending watch call keeps the cells that were turned face up or removed
\* while it was pending; a cell turned face down again leaves every such set.
Turned(S, pos, on) ==
    [S EXCEPT !.call = [c \in DOMAIN S.call |->
                          IF on /\ c \in Pending(S)
                          THEN [S.call[c] EXCEPT !.turned = @ \cup {pos}]
                          ELSE IF ~on
                               THEN [S.call[c] EXCEPT !.turned = @ \ {pos}]
                               ELSE S.call[c]]]

\* card.setFaceUp(b), likewise.
SetFaceUp(S, pos, b) ==
    IF CardAt(S, pos).exists
    THEN LET S1 == [S EXCEPT !.cards[Idx(pos)].faceUp = b]
         IN IF CardAt(S, pos).faceUp = b THEN S1 ELSE Turned(S1, pos, b)
    ELSE S

\* ------------------------------------------------------------- bookkeeping
\* The player of a call: flip finds the player by the id it is given, and a
\* player may have a second call in flight under the same id.
Owner(c) == IF c = "alice2" THEN "alice" ELSE IF c = "carol2" THEN "carol" ELSE c

\* The elements of a sequence.
Range(seq) == {seq[i] : i \in 1 .. Len(seq)}

\* The ids the model uses, in a fixed order.
AllIds == <<"alice", "bob", "carol">>

\* The players array after addPlayer for each id of P.
Roster(P) == SelectSeq(AllIds, LAMBDA x : x \in P)

\* players.find(player => player.getId() === id) finds a record.
Known(id) == \E i \in 1 .. Len(players) : players[i] = id

\* q controls the cell: it is in q's turn stack and its card is busy.
Controls(S, q, pos) ==
    /\ pos \in Range(S.stack[q])
    /\ CardAt(S, pos).exists
    /\ CardAt(S, pos).isBusy

\* No call but q is in flight on the target of q.
NoOtherFlipOn(S, q) ==
    \A d \in DOMAIN S.call \ {q} :
        S.call[d].pc = "idle" \/ S.call[d].target # S.call[q].target

\* The step of p, which ends in S, is the notification after the release of
\* p's non-matching pair (processStack, lines 579-582), and it resumes q, the
\* only call in the registry of its target, registered while the card was
\* held.
ReleasedTo(p, S, q) ==
    /\ call[p].pc = "f10"
    /\ call[q].pc = "suspended"
    /\ S.call[q].pc = "wa"
    /\ call[q].target \in {call[p].first, call[p].second}
    /\ cardWaitQueue[call[q].target] = <<q>>
    /\ ~call[q].late
    /\ CardAt(S, call[q].target).exists

\* q's call was resumed so, and no other call has been in flight on its
\* target since.
Granted(p, S, q) ==
    /\ NoOtherFlipOn(S, q)
    /\ \/ ReleasedTo(p, S, q)
       \/ call[q].granted /\ call[q].pc # "idle"

\* What getBoardSnapshot compares of a card: existence, face, value if face up.
Face(c) == IF ~c.exists THEN <<FALSE, FALSE, "">> ELSE <<TRUE, c.faceUp, GetValue(c)>>

\* The step of player p ends in S.  The bookkeeping: the record of another
\* player's finished call is dropped, a holder that no longer controls the
\* target of a call leaves its holders, p's call has run alone only if no
\* other player has taken a step since it started, and the face of the target
\* at the start of a first-card flip is kept while the call runs alone; a call
\* of watch keeps whether a step since it was made has changed the existence,
\* the face or the face-up value of a cell (moved).
Commit(p, S) ==
    /\ cards' = S.cards
    /\ playerTurnStack' = S.stack
    /\ removalQueue' = S.rq
    /\ cardWaitQueue' = S.cwq
    /\ watchQueue' = S.wq
    /\ call' = [q \in DOMAIN S.call |->
                  IF q # p /\ S.call[q].pc = "idle"
                  THEN IdleCall
                  ELSE [S.call[q] EXCEPT
                          !.holders = {a \in @ : Controls(S, a, S.call[q].target)},
                          !.granted = Granted(p, S, q),
                          !.moved = IF S.call[q].kind = "watch" /\ S.call[q].pc # "idle"
                                    THEN @ \/ \E k \in DOMAIN cards :
                                                 Face(S.cards[k]) # Face(cards[k])
                                    ELSE FALSE,
                          !.state0 = IF @ = "gone" THEN @
                                     ELSE IF q = p /\ (call[p].pc = "idle" \/ solo = p)
                                          THEN @
                                          ELSE "none"]]
    /\ solo' = IF call[p].pc = "idle" \/ solo = p THEN p ELSE ""
    /\ lastPair' = S.pair
    /\ instance' = instance
    /\ outcome' = NoOutcome

\* ------------------------------------------------------------ notification
\* A notifyCardAvailable that resolves every waiting promise of the cell.
NotifyCardAvailable_All(S, pos) ==
    [S EXCEPT !.cwq[pos] = << >>,
              !.call = [c \in DOMAIN S.call |->
                          IF c \in Range(S.cwq[pos])
                          THEN [S.call[c] EXCEPT !.pc = "wa"]
                          ELSE S.call[c]]]

\* notifyCardAvailable: resolve the first waiting promise of the cell; the
\* resumed call re-enters the loop of waitForCardAvailable.
NotifyCardAvailable(S, pos) ==
    IF Len(S.cwq[pos]) > 0
    THEN LET w == Head(S.cwq[pos])
         IN [S EXCEPT !.cwq[pos] = Tail(@), !.call[w].pc = "wa"]
    ELSE S

\* notifyWatchers: resolve every pending watcher.
NotifyWatchers(S) ==
    [S EXCEPT !.wq = << >>,
              !.call = [p \in DOMAIN S.call |->
                          IF \E i \in 1 .. Len(S.wq) : S.wq[i] = p
                          THEN [S.call[p] EXCEPT !.pc = "watchWoken"]
                          ELSE [S.call[p] EXCEPT !.unwoken = {}]]]

\* removeCard.  The calls that stay in the registry of the removed cell are
\* marked.
RemoveCard(S, pos) ==
    LET S1 == NotifyWatchers(NotifyCardAvailable(
                  [Turned(S, pos, TRUE) EXCEPT !.cards[Idx(pos)] = NoCard], pos))
    IN [S1 EXCEPT !.call = [c \in DOMAIN S1.call |->
                              IF c \in Range(S1.cwq[pos])
                              THEN [S1.call[c] EXCEPT !.orphaned = TRUE]
                              ELSE S1.call[c]]]

\* ---------------------------------------------------------- call bookkeeping
\* The call of p ends (returns or throws) with result r.
Finish(S, p, r) ==
    [S EXCEPT !.call[p] = [IdleCall EXCEPT !.result = r,
                                           !.target = S.call[p].target,
                                           !.kind = S.call[p].kind,
                                           !.first0 = S.call[p].first0,
                                           !.second0 = S.call[p].second0,
                                           !.own = S.call[p].own,
                                           !.holders = S.call[p].holders,
                                           !.blocked = S.call[p].blocked,
                                           !.due = S.call[p].due,
                                           !.state0 = S.call[p].state0,
                                           !.unwoken = S.call[p].unwoken]]

Goto(S, p, label) == [S EXCEPT !.call[p].pc = label]

\* Where flip continues after each of its three waitForCardAvailable calls.
Cont(site) == CASE site = 1 -> "f1" [] site = 2 -> "f3" [] OTHER -> "f5"

\* A waitForCardAvailable that returns without looking at the busy flag.
waitForCardAvailable_NoWait(S, p, site) ==
    [S EXCEPT !.call[p].pc = Cont(site), !.call[p].site = 0,
              !.call[p].isBusy = FALSE]

\* A waitForCardAvailable that also waits for a card that is not there.
waitForCardAvailable_WaitGone(S, p, site) ==
    LET c == CardAt(S, S.call[p].target)
    IN IF c.exists /\ ~c.isBusy
       THEN [S EXCEPT !.call[p].pc = Cont(site), !.call[p].site = 0,
                      !.call[p].isBusy = FALSE]
       ELSE [S EXCEPT !.call[p].pc = "wb", !.call[p].site = site,
                      !.call[p].isBusy = TRUE]

\* waitForCardAvailable up to its first await: the card is read, and its busy
\* flag; an absent or free card returns, a busy one goes on to register.
waitForCardAvailable(S, p, site) ==
    LET c == CardAt(S, S.call[p].target)
    IN IF (~c.exists) \/ (~c.isBusy)
       THEN [S EXCEPT !.call[p].pc = Cont(site), !.call[p].site = 0,
                      !.call[p].isBusy = FALSE]
       ELSE [S EXCEPT !.call[p].pc = "wb", !.call[p].site = site,
                      !.call[p].isBusy = TRUE]

\* The cards of the board file, all face down.
NewCards == [i \in CellIdx |-> NewCard(Layout[(i \div Cols) + 1][(i % Cols) + 1])]

\* The board after parseFromFile and addPlayer for each player of P, with
\* room for the calls of C.
BoardOf(P, C) ==
    /\ cards = NewCards
    /\ players = Roster(P)
    /\ playerTurnStack = [p \in P |-> << >>]
    /\ removalQueue = [p \in P |-> << >>]
    /\ cardWaitQueue = [pos \in Keys |-> << >>]
    /\ watchQueue = << >>
    /\ instance = Parsed
    /\ outcome = NoOutcome
    /\ call = [c \in C |-> IdleCall]
    /\ solo = ""
    /\ lastPair = [p \in P |-> NoPair]

Board == BoardOf(Players, Players)

Init == Board /\ callsLeft = MaxCalls

InitDeep == Board /\ callsLeft = MaxCalls + 1

\* The board after flip('alice', 0, 0) has returned on the new board: alice
\* controls (0,0), face up.
HeldOf(P, C) ==
    /\ cards = [NewCards EXCEPT ![Idx(<<0, 0>>)] =
                    [@ EXCEPT !.faceUp = TRUE, !.isBusy = TRUE]]
    /\ players = Roster(P)
    /\ playerTurnStack = [p \in P |-> IF p = "alice" THEN << <<0, 0>> >> ELSE << >>]
    /\ removalQueue = [p \in P |-> << >>]
    /\ cardWaitQueue = [pos \in Keys |-> << >>]
    /\ watchQueue = << >>
    /\ instance = Parsed
    /\ outcome = NoOutcome
    /\ call = [c \in C |-> IdleCall]
    /\ solo = ""
    /\ lastPair = [p \in P |-> NoPair]

\* The board after flip('alice', 0, 0) has returned and flip('bob', 0, 0) has
\* found the card busy, registered and suspended.
WaitingOf(P, C) ==
    /\ cards = [NewCards EXCEPT ![Idx(<<0, 0>>)] =
                    [@ EXCEPT !.faceUp = TRUE, !.isBusy = TRUE]]
    /\ players = Roster(P)
    /\ playerTurnStack = [p \in P |-> IF p = "alice" THEN << <<0, 0>> >> ELSE << >>]
    /\ removalQueue = [p \in P |-> << >>]
    /\ cardWaitQueue = [pos \in Keys |->
                           IF pos = <<0, 0>> THEN << "bob" >> ELSE << >>]
    /\ watchQueue = << >>
    /\ instance = Parsed
    /\ outcome = NoOutcome
    /\ call = [c \in C |->
                 IF c = "bob"
                 THEN [IdleCall EXCEPT !.pc = "suspended", !.target = <<0, 0>>,
                                       !.isBusy = TRUE, !.site = 1,
                                       !.kind = "first", !.holders = {"alice"},
                                       !.blocked = TRUE]
                 ELSE IdleCall]
    /\ solo = "bob"
    /\ lastPair = [p \in P |-> NoPair]

\* Three players, one call each at a time, after alice's first flip and with
\* bob's flip of the same card waiting.
InitThree ==
    /\ WaitingOf(Players \cup {"carol"}, Players \cup {"carol"})
    /\ callsLeft = MaxCalls - 1

\* The board after flip('alice', 0, 0) and flip('alice', 1, 0) have returned
\* on the new board: alice controls the matched pair, face up.
MatchedOf(P, C) ==
    /\ cards = [i \in CellIdx |->
                   IF i \in {Idx(<<0, 0>>), Idx(<<1, 0>>)}
                   THEN [NewCards[i] EXCEPT !.faceUp = TRUE, !.isBusy = TRUE]
                   ELSE NewCards[i]]
    /\ players = Roster(P)
    /\ playerTurnStack = [p \in P |-> IF p = "alice"
                                      THEN << <<1, 0>>, <<0, 0>> >>
                                      ELSE << >>]
    /\ removalQueue = [p \in P |-> << >>]
    /\ cardWaitQueue = [pos \in Keys |-> << >>]
    /\ watchQueue = << >>
    /\ instance = Parsed
    /\ outcome = NoOutcome
    /\ call = [c \in C |-> IdleCall]
    /\ solo = ""
    /\ lastPair = [p \in P |-> NoPair]

\* Three players, one call each at a time, after alice's matching pair.
InitPair ==
    /\ MatchedOf(Players \cup {"carol"}, Players \cup {"carol"})
    /\ callsLeft = MaxCalls - 1

TwiceCalls == 2

\* Two players, alice with up to two calls in flight at once, after alice's
\* first flip.
InitTwice ==
    /\ HeldOf(Players, Players \cup {"alice2"})
    /\ callsLeft = TwiceCalls

\* ------------------------------------------------- preprocessWaitForCardAvailable
\* The end of both failing branches, after the await of setIsBusy(false): the
\* first card enters the removal queue, its waiter and the watchers are
\* notified, and the error is thrown.
preprocessThrow(S, p, err) ==
    LET pos == S.call[p].first
        S1 == [S EXCEPT !.rq[Owner(p)] = Append(@, pos)]
    IN Finish(NotifyWatchers(NotifyCardAvailable(S1, pos)), p, err)

\* stack.shift() of the first card and the release of its busy flag; the code
\* awaits setIsBusy only when the card is still there, and otherwise runs on
\* to the throw at once.
preprocessRelinquish(S, p, err) ==
    LET pos == Head(S.stack[Owner(p)])
        S1 == [S EXCEPT !.stack[Owner(p)] = Tail(@), !.call[p].first = pos]
    IN IF CardAt(S1, pos).exists
       THEN [SetIsBusy(S1, pos, FALSE) EXCEPT
                !.call[p].pc = IF err = "not_found" THEN "ppA" ELSE "ppB2"]
       ELSE preprocessThrow(S1, p, err)

\* preprocessWaitForCardAvailable up to its first await.
preprocessWaitForCardAvailable(S, p) ==
    LET c == CardAt(S, S.call[p].target)
    IN IF ~c.exists
       THEN preprocessRelinquish(S, p, "not_found")
       ELSE [S EXCEPT !.call[p].pc = "ppB", !.call[p].isBusy = c.isBusy]

\* ---------------------------------------------------------- processPreviousPair
\* The second half: a turn stack of two cards is the matched pair of the
\* previous turn; both are removed, with an await between the two removals.
processPreviousPairStack(S, p) ==
    LET st == S.stack[Owner(p)]
        back == [S EXCEPT !.call[p].pc = "wa", !.call[p].site = 2,
                          !.call[p].first = NoPos, !.call[p].isBusy = FALSE]
    IN IF Len(st) < 2
       THEN back
       ELSE LET first == st[1]
                second == st[2]
                S1 == [back EXCEPT !.stack[Owner(p)] = Tail(Tail(@))]
            IN IF (~CardAt(S1, first).exists) \/ (~CardAt(S1, second).exists)
               THEN S1
               ELSE [RemoveCard(S1, first) EXCEPT !.call[p].pc = "ppp4",
                                                  !.call[p].second = second]

\* The loop over the removal queue, from a removalQueue.shift() to the next
\* await: entries whose cell is empty are dropped; at the first entry that
\* holds a card its busy flag is read and the call awaits.
RECURSIVE processPreviousPairLoop(_, _)
processPreviousPairLoop(S, p) ==
    IF Len(S.rq[Owner(p)]) = 0
    THEN processPreviousPairStack(S, p)
    ELSE LET pos == Head(S.rq[Owner(p)])
             S1 == [S EXCEPT !.rq[Owner(p)] = Tail(@)]
         IN IF ~CardAt(S1, pos).exists
            THEN processPreviousPairLoop(S1, p)
            ELSE [S1 EXCEPT !.call[p].pc = "ppp1", !.call[p].first = pos,
                            !.call[p].isBusy = CardAt(S1, pos).isBusy]

\* ---------------------------------------------------------- processRemovalQueue
\* Delete a position from every player's removal queue.
processRemovalQueue(S, pos) ==
    [S EXCEPT !.rq = [q \in DOMAIN S.rq |->
                        SelectSeq(S.rq[q], LAMBDA x : x # pos)]]

\* ----------------------------------------------------------------- processStack
\* processStack up to its first await (or to its return).
processStack(S, p) ==
    LET st == S.stack[Owner(p)]
        back == [S EXCEPT !.call[p].pc = "f11"]
    IN IF Len(st) < 2
       THEN back
       ELSE LET first == st[1]
                second == st[2]
                S1 == [back EXCEPT !.stack[Owner(p)] = Tail(Tail(@))]
            IN IF (~CardAt(S1, first).exists) \/ (~CardAt(S1, second).exists)
               THEN S1
               ELSE IF GetValue(CardAt(S1, first)) # GetValue(CardAt(S1, second))
                    THEN [SetIsBusy([S1 EXCEPT !.rq[Owner(p)] = Append(Append(@, first), second)],
                                    first, FALSE)
                            EXCEPT !.call[p].pc = "f9", !.call[p].first = first,
                                   !.call[p].second = second,
                                   !.pair[Owner(p)] = [cells |-> {first, second},
                                                taken |-> {}]]
                    ELSE [S1 EXCEPT !.stack[Owner(p)] = <<second, first>> \o @]

\* ------------------------------------------------------------------------- flip
\* p takes pos: the players whose pending non-matching pair holds pos see it
\* taken.
TakenFrom(pr, p, pos) ==
    [r \in DOMAIN pr |->
        IF r # p /\ pos \in pr[r].cells
        THEN [pr[r] EXCEPT !.taken = @ \cup {pos}]
        ELSE pr[r]]

\* The cells of p's pending pair that another player took and released: on
\* the board, face up, not busy, in no turn stack.
TakenAndReleased(S, p) ==
    {x \in S.pair[p].taken :
        /\ CardAt(S, x).exists
        /\ CardAt(S, x).faceUp
        /\ ~CardAt(S, x).isBusy
        /\ \A q \in DOMAIN S.stack : x \notin Range(S.stack[q])}

\* The record of a call of flip(p, pos) made in S.
StartCall(S, p, pos) ==
    LET c == CardAt(S, pos)
        others == {q \in DOMAIN S.stack : q # Owner(p) /\ Controls(S, q, pos)}
        isTheSecondCard == Len(S.stack[Owner(p)]) = 1
    IN [IdleCall EXCEPT
          !.pc = "start",
          !.target = pos,
          !.first0 = IF Len(S.stack[Owner(p)]) > 0 THEN S.stack[Owner(p)][1] ELSE NoPos,
          !.second0 = IF Len(S.stack[Owner(p)]) > 1 THEN S.stack[Owner(p)][2] ELSE NoPos,
          !.own = isTheSecondCard /\ Controls(S, Owner(p), pos),
          !.state0 = IF isTheSecondCard \/ (c.exists /\ c.isBusy) THEN "none"
                     ELSE IF ~c.exists THEN "gone"
                     ELSE IF ~c.faceUp THEN "down"
                     ELSE IF \/ pos \in Range(S.rq[Owner(p)])
                             \/ \E q \in DOMAIN S.stack : pos \in Range(S.stack[q])
                          THEN "none"
                     ELSE "up",
          !.holders = IF Len(S.stack[Owner(p)]) = 0 THEN others ELSE {},
          !.blocked = Len(S.stack[Owner(p)]) = 0 /\ others # {},
          !.due = IF isTheSecondCard THEN {} ELSE TakenAndReleased(S, Owner(p)) \ {pos},
          !.kind = IF Len(S.stack[Owner(p)]) = 0 THEN "first"
                   ELSE IF ~isTheSecondCard THEN "first_pair"
                   ELSE IF ~c.exists THEN "second_empty"
                   ELSE IF others # {} THEN "second_other"
                   ELSE IF pos \in Range(S.stack[Owner(p)]) THEN "second_own"
                   ELSE "second"]

\* ------------------------------------------------------------------ addPlayer
\* addPlayer(new Player(id)): the record is pushed on the players array and
\* the maps get an entry for the new Player object; an id that already has a
\* record keeps the entries that find() reaches.
AddPlayer(S, id) ==
    [S EXCEPT !.stack = @ @@ (id :> << >>),
              !.rq = @ @@ (id :> << >>),
              !.pair = @ @@ (id :> NoPair)]

\* flip past the lookup of the player, up to its first await.
FlipFrom(S, p, pos) ==
    LET isTheSecondCard == Len(S.stack[Owner(p)]) = 1
        S0 == [S EXCEPT !.call[p] = StartCall(S, p, pos),
                        !.pair[Owner(p)] = IF isTheSecondCard THEN @ ELSE NoPair]
    IN IF isTheSecondCard
       THEN preprocessWaitForCardAvailable(S0, p)
       ELSE waitForCardAvailable(S0, p, 1)

\* The registered board is the board of the board file: the calls of flip are
\* made on that board.
Playable == instance = Parsed /\ DOMAIN cards = CellIdx

\* A flip that gives an unknown id a record before it throws.
flip_Recording(p, pos) ==
    /\ call[p].pc = "idle"
    /\ callsLeft > 0
    /\ Playable
    /\ callsLeft' = callsLeft - 1
    /\ IF Known(Owner(p))
       THEN players' = players /\ Commit(p, FlipFrom(Cur, p, pos))
       ELSE /\ players' = Append(players, Owner(p))
            /\ Commit(p, Finish([AddPlayer(Cur, Owner(p)) EXCEPT !.call[p] =
                                    [IdleCall EXCEPT !.target = pos, !.kind = "unknown"]],
                                p, "player_not_found"))

\* A flip that gives an unknown id a record, as look does, and goes on.
flip_Lazy(p, pos) ==
    /\ call[p].pc = "idle"
    /\ callsLeft > 0
    /\ Playable
    /\ callsLeft' = callsLeft - 1
    /\ IF Known(Owner(p))
       THEN players' = players /\ Commit(p, FlipFrom(Cur, p, pos))
       ELSE /\ players' = Append(players, Owner(p))
            /\ Commit(p, FlipFrom(AddPlayer(Cur, Owner(p)), p, pos))

\* flip(playerId, row, column) from the call to its first await: an unknown
\* id throws.
flip(p, pos) ==
    /\ call[p].pc = "idle"
    /\ callsLeft > 0
    /\ Playable
    /\ callsLeft' = callsLeft - 1
    /\ UNCHANGED players
    /\ Commit(p, IF ~Known(Owner(p))
                 THEN Finish([Cur EXCEPT !.call[p] =
                                 [IdleCall EXCEPT !.target = pos, !.kind = "unknown"]],
                             p, "player_not_found")
                 ELSE FlipFrom(Cur, p, pos))

\* preprocessWaitForCardAvailable after `await card.getIsBusy()`.
preprocessAfterGetIsBusy(p) ==
    /\ call[p].pc = "ppB"
    /\ UNCHANGED <<players, callsLeft>>
    /\ LET S == Cur
           isBusyByMe == \E i \in 1 .. Len(S.stack[Owner(p)]) : S.stack[Owner(p)][i] = S.call[p].target
           back == [S EXCEPT !.call[p].pc = "wa", !.call[p].site = 1,
                             !.call[p].isBusy = FALSE]
       IN Commit(p, IF isBusyByMe \/ ~S.call[p].isBusy \/ Len(S.stack[Owner(p)]) = 0
                 THEN back
                 ELSE preprocessRelinquish(S, p, "not_available"))

\* preprocessWaitForCardAvailable after `await removedCard.setIsBusy(false)`.
preprocessAfterSetIsBusy(p) ==
    /\ call[p].pc \in {"ppA", "ppB2"}
    /\ UNCHANGED <<players, callsLeft>>
    /\ Commit(p, preprocessThrow(Cur, p, IF call[p].pc = "ppA" THEN "not_found"
                                                           ELSE "not_available"))

\* A waitForCardAvailable call made after an await, or its loop resumed by
\* notifyCardAvailable.
waitForCardAvailableLoop(p) ==
    /\ call[p].pc = "wa"
    /\ UNCHANGED <<players, callsLeft>>
    /\ Commit(p, waitForCardAvailable(Cur, p, call[p].site))

\* waitForCardAvailable after `await card.getIsBusy()` read true: the call
\* pushes its resolver on the cell's queue and awaits the promise.  The call
\* is late when the card has been released or removed since the read.
waitForCardAvailableQueue(p) ==
    /\ call[p].pc = "wb"
    /\ UNCHANGED <<players, callsLeft>>
    /\ Commit(p, [Cur EXCEPT !.cwq[call[p].target] = Append(@, p),
                          !.call[p].pc = "suspended",
                          !.call[p].late = ~(/\ CardAt(Cur, call[p].target).exists
                                             /\ CardAt(Cur, call[p].target).isBusy)])

\* flip after the first waitForCardAvailable (lines 632-636).
flipAfterFirstWait(p) ==
    /\ call[p].pc = "f1"
    /\ UNCHANGED <<players, callsLeft>>
    /\ Commit(p, IF Len(playerTurnStack[Owner(p)]) >= 2 \/ Len(removalQueue[Owner(p)]) >= 1
              THEN processPreviousPairLoop(Cur, p)
              ELSE waitForCardAvailable(Cur, p, 2))

\* processPreviousPair after `await card.getIsBusy()`.
processPreviousPairAfterGetIsBusy(p) ==
    /\ call[p].pc = "ppp1"
    /\ UNCHANGED <<players, callsLeft>>
    /\ Commit(p, IF call[p].isBusy
              THEN processPreviousPairLoop(Cur, p)
              ELSE LET down == CardAt(Cur, call[p].first).exists
                                   /\ CardAt(Cur, call[p].first).faceUp
                   IN [SetFaceUp(Cur, call[p].first, FALSE) EXCEPT
                          !.call[p].pc = "ppp2",
                          !.call[p].unwoken = IF down THEN @ \cup Pending(Cur) ELSE @])

\* processPreviousPair after `await card.setFaceUp(false)`.
processPreviousPairAfterSetFaceUp(p) ==
    /\ call[p].pc = "ppp2"
    /\ UNCHANGED <<players, callsLeft>>
    /\ Commit(p, Goto(SetIsBusy(Cur, call[p].first, FALSE), p, "ppp3"))

\* processPreviousPair after `await card.setIsBusy(false)`.
processPreviousPairAfterSetIsBusy(p) ==
    /\ call[p].pc = "ppp3"
    /\ UNCHANGED <<players, callsLeft>>
    /\ Commit(p, processPreviousPairLoop(NotifyCardAvailable(Cur, call[p].first), p))

\* processPreviousPair after `await this.removeCard(first...)`.
processPreviousPairRemoveSecond(p) ==
    /\ call[p].pc = "ppp4"
    /\ UNCHANGED <<players, callsLeft>>
    /\ Commit(p, [RemoveCard(Cur, call[p].second) EXCEPT
                  !.call[p].pc = "wa", !.call[p].site = 2,
                  !.call[p].second = NoPos])

\* flip after the second waitForCardAvailable (lines 637-642).
flipGetCard(p) ==
    /\ call[p].pc = "f3"
    /\ UNCHANGED <<players, callsLeft>>
    /\ LET c == CardAt(Cur, call[p].target)
       IN Commit(p, IF ~c.exists
                 THEN Finish(Cur, p, "not_found")
                 ELSE [Cur EXCEPT !.call[p].pc = "f4", !.call[p].isBusy = c.isBusy])

\* flip after `await card.getIsBusy()` (lines 643-657).
flipAfterGetIsBusy(p) ==
    /\ call[p].pc = "f4"
    /\ UNCHANGED <<players, callsLeft>>
    /\ Commit(p, IF call[p].isBusy
              THEN waitForCardAvailable(Cur, p, 3)
              ELSE Goto(SetFaceUp(Cur, call[p].target, TRUE), p, "f6"))

\* flip after the third waitForCardAvailable (lines 646-650).
flipFinalCard(p) ==
    /\ call[p].pc = "f5"
    /\ UNCHANGED <<players, callsLeft>>
    /\ Commit(p, IF ~CardAt(Cur, call[p].target).exists
              THEN Finish(Cur, p, "not_found")
              ELSE Goto(SetFaceUp(Cur, call[p].target, TRUE), p, "f6"))

\* A flip that does not mark the card busy.
flipSetIsBusy_Skip(p) ==
    /\ call[p].pc = "f6"
    /\ UNCHANGED <<players, callsLeft>>
    /\ Commit(p, Goto(Cur, p, "f7"))

\* flip after `await card.setFaceUp(true)`.
flipSetIsBusy(p) ==
    /\ call[p].pc = "f6"
    /\ UNCHANGED <<players, callsLeft>>
    /\ Commit(p, Goto(SetIsBusy(Cur, call[p].target, TRUE), p, "f7"))

\* flip after `await card.setIsBusy(true)`: the push on the turn stack and
\* processRemovalQueue, which has no await inside.
flipPush(p) ==
    /\ call[p].pc = "f7"
    /\ UNCHANGED <<players, callsLeft>>
    /\ Commit(p, Goto(processRemovalQueue(
                      [Cur EXCEPT !.stack[Owner(p)] = Append(@, call[p].target),
                                  !.pair = TakenFrom(@, Owner(p), call[p].target)],
                      call[p].target), p, "f8"))

\* flip after `await this.processRemovalQueue(...)`: processStack.
flipProcessStack(p) ==
    /\ call[p].pc = "f8"
    /\ UNCHANGED <<players, callsLeft>>
    /\ Commit(p, processStack(Cur, p))

\* processStack after `await firstCard.setIsBusy(false)`.
processStackAfterFirst(p) ==
    /\ call[p].pc = "f9"
    /\ UNCHANGED <<players, callsLeft>>
    /\ Commit(p, Goto(SetIsBusy(Cur, call[p].second, FALSE), p, "f10"))

\* processStack after `await secondCard.setIsBusy(false)`.
processStackNotify(p) ==
    /\ call[p].pc = "f10"
    /\ UNCHANGED <<players, callsLeft>>
    /\ Commit(p, Goto(NotifyCardAvailable(NotifyCardAvailable(Cur, call[p].first),
                                       call[p].second), p, "f11"))

\* flip after `await this.processStack(player)`: notifyWatchers and return.
\* The watch calls woken by a first-card flip that took, with no other call in
\* between, a face-up card nobody controlled are marked (taken).
flipReturn(p) ==
    /\ call[p].pc = "f11"
    /\ UNCHANGED <<players, callsLeft>>
    /\ LET S1 == Finish(NotifyWatchers(Cur), p, "ok")
           took == call[p].kind = "first" /\ call[p].state0 = "up"
       IN Commit(p, [S1 EXCEPT !.call = [w \in DOMAIN S1.call |->
                                          IF took /\ w \in Pending(Cur)
                                          THEN [S1.call[w] EXCEPT !.taken = TRUE]
                                          ELSE S1.call[w]]])

\* ------------------------------------------------------------- look and watch
NCells == Rows * Cols

CellPos(i) == <<i \div Cols, i % Cols>>

\* One entry of getBoardSnapshot: <<exists, faceUp, value>>.
Gone == <<FALSE, FALSE, "">>

\* card.getValue() after the await of getFaceUp(), on the card read before it:
\* the card of the cell, or, when it has been removed since, the detached
\* card, taken to have kept the face and the value it had before the await.
ValueNow(S, p, i) ==
    IF S.cards[i].exists
    THEN GetValue(S.cards[i])
    ELSE IF S.call[p].up THEN S.call[p].val ELSE ""

\* The whole board read at once, as getBoardSnapshot would see it.
BoardNow(S) ==
    [k \in 1 .. NCells |->
        LET c == S.cards[k - 1]
        IN IF ~c.exists THEN Gone ELSE <<TRUE, c.faceUp, GetValue(c)>>]

\* One SPOT of look for the player id, read at once.
SpotNow(S, id, i) ==
    LET c == S.cards[i]
    IN IF ~c.exists THEN <<"none", "">>
       ELSE IF ~c.faceUp THEN <<"down", "?">>
       ELSE IF id \in DOMAIN S.stack /\ CellPos(i) \in Range(S.stack[id])
            THEN <<"my", GetValue(c)>>
       ELSE <<"up", GetValue(c)>>

\* The first line of look: `${size.row}x${size.col}`.  A line is kept as the
\* pair of its word and what follows it.
Header == <<ToString(Rows) \o "x" \o ToString(Cols), "">>

\* look(id) read at once.
LookNow(S, id) == <<Header>> \o [k \in 1 .. NCells |-> SpotNow(S, id, k - 1)]

\* getBoardSnapshot from cell i to its next await: empty cells are entered
\* without an await; at the first card, getFaceUp() reads the face and the
\* call awaits.  i = NCells: the loop is over.
RECURSIVE SnapScan(_, _, _)
SnapScan(S, p, i) ==
    IF i = NCells
    THEN [S EXCEPT !.call[p].i = NCells]
    ELSE IF ~S.cards[i].exists
         THEN SnapScan([S EXCEPT !.call[p].current = Append(@, Gone)], p, i + 1)
         ELSE [S EXCEPT !.call[p].i = i, !.call[p].up = S.cards[i].faceUp,
                        !.call[p].val = IF S.cards[i].faceUp THEN S.cards[i].value ELSE ""]

\* A getBoardSnapshot that also records whether a face-up card is controlled.
SnapEntry_Held(S, p) ==
    LET i == S.call[p].i
        wasUp == S.call[p].up
        held == IF S.cards[i].exists /\ S.cards[i].isBusy THEN "*" ELSE ""
        e == <<TRUE, wasUp, IF wasUp THEN ValueNow(S, p, i) \o held ELSE "">>
    IN SnapScan([S EXCEPT !.call[p].current = Append(@, e)], p, i + 1)

\* getBoardSnapshot after `await card.getFaceUp()` on cell i: the entry of the
\* cell, then on to the next await.
SnapEntry(S, p) ==
    LET i == S.call[p].i
        wasUp == S.call[p].up
        e == <<TRUE, wasUp, IF wasUp THEN ValueNow(S, p, i) ELSE "">>
    IN SnapScan([S EXCEPT !.call[p].current = Append(@, e)], p, i + 1)

\* hasBoardChanged(oldSnapshot, newSnapshot)
hasBoardChanged(old, new) ==
    \E k \in 1 .. NCells :
        \/ old[k][1] # new[k][1]
        \/ old[k][2] # new[k][2]
        \/ old[k][2] /\ new[k][2] /\ old[k][3] # new[k][3]

\* The loop of look from cell i to its next await.
RECURSIVE LookScan(_, _, _)
LookScan(S, p, i) ==
    IF i = NCells
    THEN [S EXCEPT !.call[p].i = NCells]
    ELSE IF ~S.cards[i].exists
         THEN LookScan([S EXCEPT !.call[p].view = Append(@, <<"none", "">>)], p, i + 1)
         ELSE [S EXCEPT !.call[p].i = i, !.call[p].up = S.cards[i].faceUp,
                        !.call[p].val = IF S.cards[i].faceUp THEN S.cards[i].value ELSE ""]

\* look after `await card.getFaceUp()` on cell i: the line of the cell, from
\* the face read before the await and the turn stack and value as they are
\* now; then on to the next await.
LookSpot(S, p) ==
    LET i == S.call[p].i
        wasUp == S.call[p].up
        v == ValueNow(S, p, i)
        line == IF ~wasUp THEN <<"down", "?">>
                ELSE IF CellPos(i) \in Range(S.stack[Owner(p)]) THEN <<"my", v>>
                ELSE <<"up", v>>
    IN LookScan([S EXCEPT !.call[p].view = Append(@, line)], p, i + 1)

\* look from the header line to the first await of its loop.
LookStart(S, p) == LookScan([S EXCEPT !.call[p].view = <<Header>>], p, 0)

\* The record of a call of look or watch made in S.
StartView(S, p, kind) ==
    [IdleCall EXCEPT !.pc = "start", !.kind = kind,
                     !.view0 = LookNow(S, Owner(p)),
                     !.board0 = BoardNow(S)]

\* The call of look or watch ends with result r; what it saw is kept.
FinishView(S, p, r) ==
    [S EXCEPT !.call[p] = [IdleCall EXCEPT !.result = r,
                                           !.kind = S.call[p].kind,
                                           !.view = S.call[p].view,
                                           !.view0 = S.call[p].view0,
                                           !.board0 = S.call[p].board0]]

\* The pc after a scan step: still in the loop, or past it.
After(S, p, inLoop, past) ==
    [S EXCEPT !.call[p].pc = IF S.call[p].i = NCells THEN past ELSE inLoop]

\* A look that adds a record for the id it is given whether or not it has one.
look_Again(p) ==
    /\ call[p].pc = "idle"
    /\ callsLeft > 0
    /\ callsLeft' = callsLeft - 1
    /\ players' = Append(players, Owner(p))
    /\ Commit(p, Goto(AddPlayer([Cur EXCEPT !.call[p] = StartView(Cur, p, "look")],
                                Owner(p)), p, "l0"))

\* look(playerId) from the call to its first await: an unknown id gets a
\* record (the await of addPlayer), a known one starts the loop.
look(p) ==
    /\ call[p].pc = "idle"
    /\ callsLeft > 0
    /\ callsLeft' = callsLeft - 1
    /\ LET S0 == [Cur EXCEPT !.call[p] = StartView(Cur, p, "look")]
       IN IF Known(Owner(p))
          THEN /\ players' = players
               /\ Commit(p, After(LookStart(S0, p), p, "ll", "lr"))
          ELSE /\ players' = Append(players, Owner(p))
               /\ Commit(p, Goto(AddPlayer(S0, Owner(p)), p, "l0"))

\* look after `await this.addPlayer(...)`.
lookAfterAddPlayer(p) ==
    /\ call[p].pc = "l0"
    /\ UNCHANGED <<players, callsLeft>>
    /\ Commit(p, After(LookStart(Cur, p), p, "ll", "lr"))

\* look after `await card.getFaceUp()`.
lookCard(p) ==
    /\ call[p].pc = "ll"
    /\ UNCHANGED <<players, callsLeft>>
    /\ Commit(p, After(LookSpot(Cur, p), p, "ll", "lr"))

\* look returns its lines; inside watch the caller awaits them and returns
\* them in turn.
lookReturn(p) ==
    /\ call[p].pc = "lr"
    /\ UNCHANGED <<players, callsLeft>>
    /\ Commit(p, FinishView(Cur, p, "ok"))

\* watch(playerId) from the call to its first await: an unknown id gets a
\* record, a known one starts the snapshot.
watch(p) ==
    /\ call[p].pc = "idle"
    /\ callsLeft > 0
    /\ callsLeft' = callsLeft - 1
    /\ LET S0 == [Cur EXCEPT !.call[p] = StartView(Cur, p, "watch")]
       IN IF Known(Owner(p))
          THEN /\ players' = players
               /\ Commit(p, After(SnapScan(S0, p, 0), p, "ws", "wreg"))
          ELSE /\ players' = Append(players, Owner(p))
               /\ Commit(p, Goto(AddPlayer(S0, Owner(p)), p, "w0"))

\* watch after `await this.addPlayer(...)`.
watchAfterAddPlayer(p) ==
    /\ call[p].pc = "w0"
    /\ UNCHANGED <<players, callsLeft>>
    /\ Commit(p, After(SnapScan(Cur, p, 0), p, "ws", "wreg"))

\* The first getBoardSnapshot after `await card.getFaceUp()`.
watchSnapshot(p) ==
    /\ call[p].pc = "ws"
    /\ UNCHANGED <<players, callsLeft>>
    /\ Commit(p, After(SnapEntry(Cur, p), p, "ws", "wreg"))

\* watch with a snapshot in hand: the resolver is pushed on the watch queue
\* and the call awaits the promise.
watchRegister(p) ==
    /\ call[p].pc = "wreg"
    /\ UNCHANGED <<players, callsLeft>>
    /\ Commit(p, [Cur EXCEPT !.wq = Append(@, p),
                          !.call[p].pc = "watching",
                          !.call[p].snapshot = Cur.call[p].current,
                          !.call[p].current = << >>,
                          !.call[p].turned = {}])

\* watch resumed by notifyWatchers: the second getBoardSnapshot starts.
watchResumed(p) ==
    /\ call[p].pc = "watchWoken"
    /\ UNCHANGED <<players, callsLeft>>
    /\ Commit(p, After(SnapScan(Cur, p, 0), p, "wc", "wcmp"))

\* The second getBoardSnapshot after `await card.getFaceUp()`.
watchCurrent(p) ==
    /\ call[p].pc = "wc"
    /\ UNCHANGED <<players, callsLeft>>
    /\ Commit(p, After(SnapEntry(Cur, p), p, "wc", "wcmp"))

\* watch with both snapshots: a change starts look, no change pushes a new
\* resolver and awaits again.
watchCompare(p) ==
    /\ call[p].pc = "wcmp"
    /\ UNCHANGED <<players, callsLeft>>
    /\ Commit(p, IF hasBoardChanged(call[p].snapshot, call[p].current)
                 THEN After(LookStart(Cur, p), p, "ll", "lr")
                 ELSE [Cur EXCEPT !.wq = Append(@, p),
                                  !.call[p].pc = "watching",
                                  !.call[p].current = << >>,
                                  !.call[p].turned = {}])

\* The board after flip('alice', 0, 0), flip('alice', 1, 0), flip('alice', 1, 1),
\* flip('bob', 0, 1) and the failed flip('bob', 0, 0), each run to its end:
\* alice's matching pair is removed, she controls (1,1), and bob's card (0,1)
\* lies face up in his removal queue.
LateOf(P, C) ==
    /\ cards = [k \in CellIdx |->
                  IF k \in {Idx(<<0, 0>>), Idx(<<1, 0>>)} THEN NoCard
                  ELSE IF k = Idx(<<0, 1>>)
                       THEN [NewCards[k] EXCEPT !.faceUp = TRUE]
                       ELSE [NewCards[k] EXCEPT !.faceUp = TRUE, !.isBusy = TRUE]]
    /\ players = Roster(P)
    /\ playerTurnStack = [p \in P |-> IF p = "alice" THEN << <<1, 1>> >> ELSE << >>]
    /\ removalQueue = [p \in P |-> IF p = "bob" THEN << <<0, 1>> >> ELSE << >>]
    /\ cardWaitQueue = [pos \in Keys |-> << >>]
    /\ watchQueue = << >>
    /\ instance = Parsed
    /\ outcome = NoOutcome
    /\ call = [c \in C |-> IdleCall]
    /\ solo = "bob"
    /\ lastPair = [p \in P |-> NoPair]

\* The steps of look and watch.
ViewNext ==
    \E p \in DOMAIN call :
        \/ look(p)
        \/ lookAfterAddPlayer(p)
        \/ lookCard(p)
        \/ lookReturn(p)
        \/ watch(p)
        \/ watchAfterAddPlayer(p)
        \/ watchSnapshot(p)
        \/ watchRegister(p)
        \/ watchResumed(p)
        \/ watchCurrent(p)
        \/ watchCompare(p)

\* -------------------------------------------------------------------------- map
\* The card values map can meet: those of the board file and one more.
Values == {"A", "B", "C"}

\* The transforms map is called with, all pure: the next letter, and the
\* constant "C".
Transform ==
    [next |-> [v \in Values |-> IF v = "A" THEN "B" ELSE IF v = "B" THEN "C" ELSE "A"],
     same |-> [v \in Values |-> "C"]]

\* card.setValue(v) on the card that was at cell i when map read the board: a
\* card removed since is no longer on the board.
\* A setValue that puts a new face-down card of the value in the cell.
SetValue_Fresh(S, i, v) ==
    IF S.cards[i].exists THEN [S EXCEPT !.cards[i] = NewCard(v)] ELSE S

SetValue(S, i, v) ==
    IF S.cards[i].exists THEN [S EXCEPT !.cards[i].value = v] ELSE S

\* A valueToCards that gives every card an entry of its own.
RECURSIVE valueToCards_PerCard(_, _, _, _)
valueToCards_PerCard(S, f, i, G) ==
    IF i = NCells THEN G
    ELSE IF ~S.cards[i].exists THEN valueToCards_PerCard(S, f, i + 1, G)
    ELSE valueToCards_PerCard(S, f, i + 1,
             Append(G, [old |-> S.cards[i].value,
                        new |-> Transform[f][S.cards[i].value],
                        rest |-> <<i>>]))

\* valueToCards as map builds it, cell by cell: the cards grouped by their
\* value, face up or down, in the order the values are met.  Each entry is
\* one call f(value) of the transform; new is what that call resolves to.
RECURSIVE valueToCards(_, _, _, _)
valueToCards(S, f, i, G) ==
    IF i = NCells THEN G
    ELSE IF ~S.cards[i].exists THEN valueToCards(S, f, i + 1, G)
    ELSE LET v == S.cards[i].value
         IN IF \E k \in 1 .. Len(G) : G[k].old = v
            THEN valueToCards(S, f, i + 1,
                     [k \in 1 .. Len(G) |->
                         IF G[k].old = v
                         THEN [G[k] EXCEPT !.rest = Append(@, i)]
                         ELSE G[k]])
            ELSE valueToCards(S, f, i + 1,
                     Append(G, [old |-> v, new |-> Transform[f][v], rest |-> <<i>>]))

\* The call of map ends with result r; what it was called with is kept.
FinishMap(S, p, r) ==
    [S EXCEPT !.call[p] = [IdleCall EXCEPT !.result = r,
                                           !.kind = "map",
                                           !.f = S.call[p].f,
                                           !.invoked = S.call[p].invoked,
                                           !.values0 = S.call[p].values0]]

\* map past the lookup of the player, up to its first await: the cards are
\* grouped and f is called once for each entry.
MapFrom(S, p, f) ==
    LET G == valueToCards(S, f, 0, << >>)
    IN [S EXCEPT !.call[p] = [IdleCall EXCEPT
           !.kind = "map",
           !.f = f,
           !.pc = "mapping",
           !.groups = G,
           !.invoked = [k \in 1 .. Len(G) |-> G[k].old],
           !.values0 = [k \in 1 .. NCells |-> S.cards[k - 1].value]]]

\* A map that gives an unknown id a record, as look does, and goes on.
map_Lazy(p, f) ==
    /\ call[p].pc = "idle"
    /\ callsLeft > 0
    /\ callsLeft' = callsLeft - 1
    /\ IF Known(Owner(p))
       THEN players' = players /\ Commit(p, MapFrom(Cur, p, f))
       ELSE /\ players' = Append(players, Owner(p))
            /\ Commit(p, MapFrom(AddPlayer(Cur, Owner(p)), p, f))

\* map(playerId, f) from the call to its first await: an unknown id throws.
map(p, f) ==
    /\ call[p].pc = "idle"
    /\ callsLeft > 0
    /\ callsLeft' = callsLeft - 1
    /\ players' = players
    /\ Commit(p, IF ~Known(Owner(p))
                 THEN FinishMap([Cur EXCEPT !.call[p] =
                                    [IdleCall EXCEPT !.kind = "map", !.f = f]],
                                p, "player_not_found")
                 ELSE MapFrom(Cur, p, f))

\* One entry of valueToCards after `await f(value)` or after
\* `await card.setValue(newValue)`: the next card of the entry is written.
mapSetValue(p, k) ==
    /\ call[p].pc = "mapping"
    /\ k \in 1 .. Len(call[p].groups)
    /\ call[p].groups[k].rest # << >>
    /\ UNCHANGED <<players, callsLeft>>
    /\ LET g == call[p].groups[k]
       IN Commit(p, [SetValue(Cur, Head(g.rest), g.new) EXCEPT
                       !.call[p].groups[k].rest = Tail(@)])

\* map after `await Promise.all(transformPromises)`.
mapReturn(p) ==
    /\ call[p].pc = "mapping"
    /\ \A k \in 1 .. Len(call[p].groups) : call[p].groups[k].rest = << >>
    /\ UNCHANGED <<players, callsLeft>>
    /\ Commit(p, FinishMap(NotifyWatchers(Cur), p, "ok"))

\* The steps of map.
MapNext ==
    \E p \in DOMAIN call :
        \/ \E f \in DOMAIN Transform : map(p, f)
        \/ \E k \in 1 .. NCells : mapSetValue(p, k)
        \/ mapReturn(p)

Next ==
    \E p \in DOMAIN call :
        \/ \E pos \in AllPos : flip(p, pos)
        \/ preprocessAfterGetIsBusy(p)
        \/ preprocessAfterSetIsBusy(p)
        \/ waitForCardAvailableLoop(p)
        \/ waitForCardAvailableQueue(p)
        \/ flipAfterFirstWait(p)
        \/ processPreviousPairAfterGetIsBusy(p)
        \/ processPreviousPairAfterSetFaceUp(p)
        \/ processPreviousPairAfterSetIsBusy(p)
        \/ processPreviousPairRemoveSecond(p)
        \/ flipGetCard(p)
        \/ flipAfterGetIsBusy(p)
        \/ flipFinalCard(p)
        \/ flipSetIsBusy(p)
        \/ flipPush(p)
        \/ flipProcessStack(p)
        \/ processStackAfterFirst(p)
        \/ processStackNotify(p)
        \/ flipReturn(p)

Spec == Init /\ [][Next]_vars

\* The same board and the same operations, with one more call.
SpecDeep == InitDeep /\ [][Next]_vars

SpecThree == InitThree /\ [][Next]_vars

SpecPair == InitPair /\ [][Next]_vars

SpecTwice == InitTwice /\ [][Next]_vars

NextMap == Next \/ MapNext

MapCalls == 3

InitMap == HeldOf(Players, Players) /\ callsLeft = MapCalls

\* Flips and maps after alice's first card.
SpecMap == InitMap /\ [][NextMap]_vars

NextGuest == Next \/ ViewNext

GuestCalls == 3

\* The late board, with calls under the id carol, which has no record.
InitGuest ==
    /\ LateOf(Players, Players \cup {"carol", "carol2"})
    /\ callsLeft = GuestCalls

\* Flips, looks and watches, some under an id without a record.
SpecGuest == InitGuest /\ [][NextGuest]_vars

NextStranger == Next \/ MapNext \/ ViewNext

\* The late board, with calls under the id carol, which has no record.
InitStranger ==
    /\ LateOf(Players, Players \cup {"carol"})
    /\ callsLeft = GuestCalls

\* Flips, maps, looks and watches, some under an id without a record.
SpecStranger == InitStranger /\ [][NextStranger]_vars

\* The steps of watch, with the look that ends it.
WatchNext ==
    \E p \in DOMAIN call :
        \/ watch(p)
        \/ watchSnapshot(p)
        \/ watchRegister(p)
        \/ watchResumed(p)
        \/ watchCurrent(p)
        \/ watchCompare(p)
        \/ lookCard(p)
        \/ lookReturn(p)

NextWatch == Next \/ WatchNext

WatchCalls == 4

InitWatch == LateOf(Players, Players) /\ callsLeft = WatchCalls

\* Flips and watches on the late board.
SpecWatch == InitWatch /\ [][NextWatch]_vars

\* A flip with a position outside the board.
StrayNext == \E p \in DOMAIN call : \E pos \in StrayPos : flip(p, pos)

NextStray == Next \/ StrayNext

StrayCalls == 3

InitStray == Board /\ callsLeft = StrayCalls

\* Flips on the new board, some of them with a position outside it.
SpecStray == InitStray /\ [][NextStray]_vars

\* ----------------------------------------------------------------- construction
\* The rows and the columns a caller passes to the constructor.
Sizes == -1 .. Rows

\* The lengths of the cards array a caller passes to the constructor.
Counts == {Rows * Cols - 1, Rows * Cols}

\* An array of n new cards, face down, with the values of the board file.
Deck(n) == [i \in 0 .. n - 1 |-> NewCard(Layout[(i \div Cols) + 1][(i % Cols) + 1])]

\* A checkRep that does not count the cards.
checkRep_Lax(size, cs) ==
    /\ size.row > 0
    /\ size.col > 0

\* checkRep() in the constructor, where no player has a record yet and no
\* card is busy: the three assertions on the size.
checkRep(size, cs) ==
    /\ size.row > 0
    /\ size.col > 0
    /\ Cardinality(DOMAIN cs) = size.row * size.col

\* The call records after a step of other code: the record of a finished call
\* is dropped.
Settled == [q \in DOMAIN call |-> IF call[q].pc = "idle" THEN IdleCall ELSE call[q]]

\* A constructor that registers the new board whether or not one exists.
Construct_Replace(r, c, n) ==
    /\ callsLeft > 0
    /\ callsLeft' = callsLeft - 1
    /\ instance' = << [row |-> r, col |-> c] >>
    /\ cards' = Deck(n)
    /\ players' = << >>
    /\ playerTurnStack' = << >>
    /\ removalQueue' = << >>
    /\ lastPair' = << >>
    /\ cardWaitQueue' = [pos \in Keys |-> << >>]
    /\ watchQueue' = << >>
    /\ call' = Settled
    /\ solo' = ""
    /\ outcome' = [op |-> "construct",
                   result |-> IF checkRep([row |-> r, col |-> c], Deck(n))
                              THEN "ok" ELSE "invalid"]

\* new Board({row: r, col: c}, cards) with n new cards.  A second board is
\* refused; otherwise the new object is registered as the instance, its
\* fields are set, and then checkRep runs.
Construct(r, c, n) ==
    /\ callsLeft > 0
    /\ callsLeft' = callsLeft - 1
    /\ call' = Settled
    /\ solo' = ""
    /\ IF instance # << >>
       THEN /\ outcome' = [op |-> "construct", result |-> "already_exists"]
            /\ UNCHANGED <<cards, players, playerTurnStack, removalQueue,
                           cardWaitQueue, watchQueue, lastPair, instance>>
       ELSE /\ instance' = << [row |-> r, col |-> c] >>
            /\ cards' = Deck(n)
            /\ players' = << >>
            /\ playerTurnStack' = << >>
            /\ removalQueue' = << >>
            /\ lastPair' = << >>
            /\ cardWaitQueue' = [pos \in Keys |-> << >>]
            /\ watchQueue' = << >>
            /\ outcome' = [op |-> "construct",
                           result |-> IF checkRep([row |-> r, col |-> c], Deck(n))
                                      THEN "ok" ELSE "invalid"]

\* Board.getInstance()
GetInstance ==
    /\ callsLeft > 0
    /\ callsLeft' = callsLeft - 1
    /\ call' = Settled
    /\ solo' = ""
    /\ outcome' = [op |-> "getInstance",
                   result |-> IF instance = << >> THEN "not_initialized" ELSE "ok"]
    /\ UNCHANGED <<cards, players, playerTurnStack, removalQueue,
                   cardWaitQueue, watchQueue, lastPair, instance>>

\* board.addPlayer(new Player(id)) on the registered board, for an id that
\* has no record yet.
addPlayer(id) ==
    /\ instance # << >>
    /\ ~Known(id)
    /\ players' = Append(players, id)
    /\ playerTurnStack' = AddPlayer(Cur, id).stack
    /\ removalQueue' = AddPlayer(Cur, id).rq
    /\ lastPair' = AddPlayer(Cur, id).pair
    /\ call' = Settled
    /\ solo' = ""
    /\ outcome' = NoOutcome
    /\ UNCHANGED <<cards, cardWaitQueue, watchQueue, callsLeft, instance>>

BuildNext ==
    \/ \E r \in Sizes : \E c \in Sizes : \E n \in Counts : Construct(r, c, n)
    \/ GetInstance
    \/ \E id \in Players : addPlayer(id)

NextBuild == BuildNext \/ Next

BuildCalls == 4

\* The process before any board is built.
InitBuild ==
    /\ instance = << >>
    /\ outcome = NoOutcome
    /\ cards = << >>
    /\ players = << >>
    /\ playerTurnStack = << >>
    /\ removalQueue = << >>
    /\ lastPair = << >>
    /\ cardWaitQueue = [pos \in Keys |-> << >>]
    /\ watchQueue = << >>
    /\ call = [c \in Players |-> IdleCall]
    /\ solo = ""
    /\ callsLeft = BuildCalls

\* Constructions, getInstance, addPlayer and flips, from no board at all.
SpecBuild == InitBuild /\ [][NextBuild]_vars

\* ------------------------------------------------------------------------- look
\* One SPOT line of look(p): "none", "down ?", "my CARD" or "up CARD", as the
\* pair of its two words.
LookLine(p, pos) ==
    LET c == cards[Idx(pos)]
    IN IF ~c.exists THEN <<"none", "">>
       ELSE IF ~c.faceUp THEN <<"down", "?">>
       ELSE IF pos \in Range(playerTurnStack[p]) THEN <<"my", GetValue(c)>>
       ELSE <<"up", GetValue(c)>>

\* ----------------------------------------------------------------- properties
\* No call is in flight.
Quiet == \A p \in Players : call[p].pc = "idle"

\* The card of a cell is there and busy.
Busy(pos) == cards[Idx(pos)].exists /\ cards[Idx(pos)].isBusy

\* The card of a cell is there and face up.
FaceUp(pos) == cards[Idx(pos)].exists /\ cards[Idx(pos)].faceUp

\* The cell is in some player's turn stack.
Stacked(pos) == \E p \in Players : pos \in Range(playerTurnStack[p])

\* C1: under any interleaving of flip calls, no position is in the turn
\* stacks of two different players.
C1_NoPositionInTwoStacks ==
    \A p, q \in Players :
        p # q => Range(playerTurnStack[p]) \cap Range(playerTurnStack[q]) = {}

\* C2: a card is busy if and only if its position is in some player's turn
\* stack, and a stacked position holds a card.  Stated for the states in
\* which no call is in flight, where no call is between two of its writes.
C2_BusyIffInSomeStack ==
    Quiet => \A pos \in AllPos : Busy(pos) <=> Stacked(pos)

\* C3: if A controls X when B, holding no card, calls flip(B, X), the call
\* neither returns nor takes X while A has controlled X ever since: holders
\* is the set of such A, and a call that still has one is in flight and has
\* not pushed X on B's stack.
C3_WaitsWhileControlled ==
    \A b \in Players :
        call[b].holders # {} =>
            /\ call[b].pc # "idle"
            /\ call[b].target \notin Range(playerTurnStack[b])

\* A call that found its target controlled has returned with the card.
C3_Witness ==
    \E b \in Players :
        /\ call[b].blocked
        /\ call[b].pc = "idle"
        /\ call[b].result = "ok"
        /\ Controls(Cur, b, call[b].target)

\* The caller of a returned call sees its first card released.
Released(p) ==
    LET pos == call[p].first0
    IN /\ FaceUp(pos)
       /\ ~Busy(pos)
       /\ ~Stacked(pos)
       /\ pos \in Range(removalQueue[p])
       /\ LookLine(p, pos)[1] = "up"

\* C4: a second-card flip whose target another player controls fails with
\* the card-unavailable error without waiting for the target or taking it,
\* and, when no other call ran meanwhile, leaves the caller's first card
\* released: not busy, face up, off the turn stack, in the removal backlog.
C4_SecondCardOnControlledCard ==
    \A p \in Players :
        call[p].kind = "second_other" =>
            /\ call[p].pc \in {"ppB", "ppB2", "idle"}
            /\ call[p].pc = "idle" =>
                   /\ call[p].result = "not_available"
                   /\ solo = p => Released(p)

\* C5: a second-card flip on the cell the caller controls fails at once with
\* the card-unavailable error: the call never reaches the wait registry and
\* returns nothing else.
C5_OwnCardFailsImmediately ==
    \A p \in Players :
        call[p].own =>
            /\ call[p].pc \in {"ppB", "ppB2", "idle"}
            /\ call[p].pc = "idle" => call[p].result = "not_available"

\* C6: a second-card flip on an empty cell fails with the card-not-found
\* error, and afterwards the caller's first card (a card still on the board)
\* is face up, not busy, in no
\* turn stack, and look by the caller shows it as `up`.
C6_SecondCardOnEmptyCell ==
    \A p \in Players :
        (/\ call[p].kind = "second_empty"
         /\ call[p].pc = "idle"
         /\ cards[Idx(call[p].first0)].exists) =>
            /\ call[p].result = "not_found"
            /\ solo = p => Released(p)

\* C7: a player holding exactly one card is never suspended in the wait
\* registry of a cell.
C7_NoSuspendWithOneCard ==
    \A p \in Players :
        call[p].pc = "suspended" => Len(playerTurnStack[p]) # 1

\* C8: a player between two calls whose turn stack holds a matched pair
\* controls both cells, which are on the board, face up and `my` in look;
\* and when the next first-card flip has returned, both cells are empty.
C8_MatchedPairKept ==
    \A p \in Players :
        /\ (call[p].pc = "idle" /\ Len(playerTurnStack[p]) = 2) =>
               \A pos \in Range(playerTurnStack[p]) :
                   /\ Controls(Cur, p, pos)
                   /\ FaceUp(pos)
                   /\ LookLine(p, pos)[1] = "my"
        /\ (call[p].pc = "idle" /\ call[p].kind = "first_pair"
                                /\ call[p].result = "ok") =>
               /\ LookLine(p, call[p].first0)[1] = "none"
               /\ LookLine(p, call[p].second0)[1] = "none"

\* The value printed on the card a cell was dealt.
Dealt(pos) == Layout[pos[1] + 1][pos[2] + 1]

\* C9: right after a second-card flip has taken a card whose value differs
\* from that of the first card (a card still on the board), both cards are face up and not busy, the player's
\* turn stack is empty, both positions are in the player's removal backlog
\* and look by the player shows both as `up`.
C9_MismatchReleasesBoth ==
    \A p \in Players :
        (/\ call[p].pc = "idle"
         /\ solo = p
         /\ call[p].kind = "second"
         /\ call[p].result = "ok"
         /\ cards[Idx(call[p].first0)].exists
         /\ Dealt(call[p].first0) # Dealt(call[p].target)) =>
            /\ playerTurnStack[p] = << >>
            /\ \A pos \in {call[p].first0, call[p].target} :
                   /\ FaceUp(pos)
                   /\ ~Busy(pos)
                   /\ pos \in Range(removalQueue[p])
                   /\ LookLine(p, pos) = <<"up", Dealt(pos)>>

\* A step of p's sweep over its removal backlog.
Sweeps(p) ==
    /\ call[p].pc \in {"ppp1", "ppp2", "ppp3"}
    /\ call'[p].pc # call[p].pc

\* C10: the sweep over the non-matching pair on the player's next first-card
\* flip leaves a card that another player controls as it is, face up and
\* busy.
C10_SweepStep ==
    \A p \in Players :
        Sweeps(p) =>
            \A q \in Players \ {p} : \A pos \in AllPos :
                Controls(Cur, q, pos) => cards'[Idx(pos)] = cards[Idx(pos)]

C10_SweepSparesControlledCards == [][C10_SweepStep]_vars

\* C11: when a first-card flip of P that ran alone, with no other call in
\* flight, has returned, every card
\* of P's non-matching pair that another player had taken and released, and
\* that was face up and uncontrolled when the flip was called, is face down.
C11_ReleasedCardTurnedDown ==
    \A p \in Players :
        (Quiet /\ solo = p /\ call[p].result = "ok") =>
            \A x \in call[p].due : ~FaceUp(x)

\* p's turn stack holds a matched pair whose two cards are on the board.
HoldsPair(p) ==
    /\ Len(playerTurnStack[p]) = 2
    /\ \A x \in Range(playerTurnStack[p]) : cards[Idx(x)].exists

\* C12: the previous turn is retired before a first-card flip can suspend:
\* no player is suspended on another player's cell while the player's own
\* matched pair is still on the board.
C12_RetiredBeforeSuspending ==
    \A p \in Players :
        (call[p].pc = "suspended" /\ call[p].target \notin Range(playerTurnStack[p]))
            => ~HoldsPair(p)

\* p's call is suspended for good: it waits in the registry of its target,
\* no other call is in flight, and no other player has the target in a turn
\* stack or a removal queue, so that no call can release the target.
Forsaken(p) ==
    /\ call[p].pc = "suspended"
    /\ \A q \in DOMAIN call \ {p} :
           /\ call[q].pc = "idle"
           /\ call[p].target \notin Range(playerTurnStack[q])
           /\ call[p].target \notin Range(removalQueue[q])

\* C13: a first-card flip on a cell of the caller's own matched pair does
\* not stay suspended, and when it has returned it has failed with the
\* card-not-found error and both cells of the pair are empty.
C13_OwnPairFlipReturns ==
    \A p \in Players :
        (call[p].kind = "first_pair"
            /\ call[p].target \in {call[p].first0, call[p].second0}) =>
            /\ ~Forsaken(p)
            /\ call[p].pc = "idle" =>
                   /\ call[p].result = "not_found"
                   /\ ~cards[Idx(call[p].first0)].exists
                   /\ ~cards[Idx(call[p].second0)].exists

\* C14: a flip call that was suspended in the registry of a cell when the
\* cell was removed does not stay suspended: it is not left waiting with no
\* call that could wake it.
C14_NoWaiterOnRemovedCell ==
    \A p \in DOMAIN call :
        call[p].orphaned => ~Forsaken(p)

\* The calls suspended on the cell that the step resumes.
Resumed(pos) ==
    {c \in DOMAIN call : /\ call[c].pc = "suspended"
                         /\ call[c].target = pos
                         /\ call'[c].pc # "suspended"}

\* The registry of a cell holds the calls suspended on it, each once.
Registry ==
    \A pos \in AllPos :
        /\ \A i, j \in 1 .. Len(cardWaitQueue[pos]) :
               cardWaitQueue[pos][i] = cardWaitQueue[pos][j] => i = j
        /\ \A c \in DOMAIN call :
               (call[c].pc = "suspended" /\ call[c].target = pos)
                   <=> c \in Range(cardWaitQueue[pos])

\* A step leaves the registry of the cell alone, or appends one call to it,
\* or resumes the call at its head and no other.
ReleaseStep(pos) ==
    \/ /\ Resumed(pos) = {}
       /\ \/ cardWaitQueue'[pos] = cardWaitQueue[pos]
          \/ \E c \in DOMAIN call :
                 cardWaitQueue'[pos] = Append(cardWaitQueue[pos], c)
    \/ /\ cardWaitQueue[pos] # << >>
       /\ Resumed(pos) = {Head(cardWaitQueue[pos])}
       /\ call'[Head(cardWaitQueue[pos])].pc = "wa"
       /\ cardWaitQueue'[pos] = Tail(cardWaitQueue[pos])

\* A call that registered while the card was held is not left suspended on a
\* card that is on the board and free when every other call has returned or
\* is suspended.
NoneLeftBehind ==
    \A c \in DOMAIN call :
        ~(/\ call[c].pc = "suspended"
          /\ ~call[c].late
          /\ \A d \in DOMAIN call \ {c} : call[d].pc \in {"idle", "suspended"}
          /\ cards[Idx(call[c].target)].exists
          /\ ~cards[Idx(call[c].target)].isBusy)

C16_SoleWaiterGetsCard ==
    \A b \in DOMAIN call :
        (call[b].granted /\ call[b].pc = "idle") =>
            /\ call[b].result = "ok"
            /\ Controls(Cur, Owner(b), call[b].target)

\* C17: a first-card flip on an empty cell never registers and never
\* suspends, never reaches the taking of a card, leaves nothing on the
\* caller's turn stack that was not there, and returns card-not-found.
C17_FirstCardOnEmptyCell ==
    \A c \in DOMAIN call :
        call[c].state0 = "gone" =>
            /\ call[c].pc \in {"wa", "f1", "ppp1", "ppp2", "ppp3", "ppp4",
                                "f3", "idle"}
            /\ call[c].pc = "idle" => call[c].result = "not_found"
            /\ call[c].target \notin Range(playerTurnStack[Owner(c)])
            /\ Range(playerTurnStack[Owner(c)]) \subseteq
                   {call[c].first0, call[c].second0}
            /\ call[c].kind = "first" => playerTurnStack[Owner(c)] = << >>

\* C17 witness: a first-card flip on an empty cell has returned.
C17_Witness ==
    \E c \in DOMAIN call :
        /\ call[c].state0 = "gone"
        /\ call[c].kind = "first"
        /\ call[c].pc = "idle"
        /\ call[c].result = "not_found"
        /\ ~cards[Idx(call[c].target)].exists

\* C18: a first-card flip on a card that is face up and not busy, left over
\* from another player's non-matching pair, that runs with no step of another
\* player in between, never registers or suspends, the card is face up at
\* every step, and at the return the call has succeeded, the caller controls
\* the card and look shows it to the caller as `my <value>`.
C18_FirstCardOnFaceUpFreeCard ==
    \A p \in DOMAIN call :
        call[p].state0 = "up" =>
            /\ call[p].pc \notin {"wb", "suspended"}
            /\ FaceUp(call[p].target)
            /\ call[p].pc = "idle" =>
                   /\ call[p].result = "ok"
                   /\ Controls(Cur, Owner(p), call[p].target)
                   /\ LookLine(Owner(p), call[p].target) =
                          <<"my", GetValue(cards[Idx(call[p].target)])>>

\* C18 witness: such a call has returned with the card.
C18_Witness ==
    \E p \in DOMAIN call :
        /\ call[p].state0 = "up"
        /\ call[p].pc = "idle"
        /\ call[p].result = "ok"
        /\ call[p].target \in Range(playerTurnStack[Owner(p)])
        /\ \E q \in DOMAIN removalQueue \ {Owner(p)} : removalQueue[q] # << >>

\* C19: right after a first-card flip of p on a face-down card has returned
\* successfully, with no step of another player since the call was made and
\* no other call in flight, look(p) shows the cell as `my <value>` and look(q)
\* of every other player q shows it as `up <value>`.
C19_LookAfterFirstFlip ==
    \A p \in DOMAIN call :
        (/\ call[p].state0 = "down"
         /\ call[p].result = "ok"
         /\ \A d \in DOMAIN call : call[d].pc = "idle") =>
            LET v == GetValue(cards[Idx(call[p].target)])
            IN /\ LookLine(Owner(p), call[p].target) = <<"my", v>>
               /\ \A q \in Range(players) \ {Owner(p)} :
                      LookLine(q, call[p].target) = <<"up", v>>

\* C20: every player's turn stack holds at most two positions in every
\* reachable state, also when the player has two flip calls in flight at
\* once.
C20_StackAtMostTwo ==
    \A p \in DOMAIN playerTurnStack : Len(playerTurnStack[p]) <= 2


\* ------------------------------------------------------------------------ watch
\* A call of watch that has returned its lines.
Watched(c) ==
    /\ call[c].kind = "watch"
    /\ call[c].pc = "idle"
    /\ call[c].result = "ok"

\* C21: a call of watch(p) does not return while every cell exists, lies face
\* up and shows its value exactly as when the call was made, and the lines it
\* returns differ in at least one cell from the lines look(p) had at the call.
C21_WatchReturnsAChange ==
    \A c \in DOMAIN call :
        Watched(c) =>
            /\ BoardNow(Cur) # call[c].board0
            /\ call[c].view # call[c].view0

\* C22: a call of watch that was pending when a flip turned a face-down card
\* face up or removed a card, the change still in place when the call runs
\* again, goes on to return: it does not go back to waiting.
C22_PendingWatchSeesTurn ==
    [][\A c \in DOMAIN call :
          (call[c].pc = "wcmp" /\ call[c].turned # {}) => call'[c].pc # "watching"]_vars

\* C23: the watch calls that were pending when the draining of a removal queue
\* turned a card face down have been woken by the time the draining flip has
\* returned, failed or suspended.
C23_DrainWakesWatchers ==
    \A c \in DOMAIN call :
        call[c].pc \in {"idle", "suspended"} => call[c].unwoken = {}

\* -------------------------------------------------------------------------- map
\* The cells that held a card when the map call of c was made.
Cells0(c) == {k \in 1 .. NCells : call[c].values0[k] # ""}

\* A call of map that has returned.
Mapped(c) ==
    /\ call[c].kind = "map"
    /\ call[c].pc = "idle"
    /\ call[c].result = "ok"

\* C24: one call of map calls the transform exactly once for each distinct
\* value on the board at the call, face up or down, never twice for the same
\* value; and when it returns with no step of another call since it was made,
\* every card holds the transform of its old value.
C24_TransformOncePerValue ==
    \A c \in DOMAIN call :
        (call[c].kind = "map" /\ (call[c].pc = "mapping" \/ Mapped(c))) =>
            /\ \A j, k \in 1 .. Len(call[c].invoked) :
                   call[c].invoked[j] = call[c].invoked[k] => j = k
            /\ Range(call[c].invoked) = {call[c].values0[k] : k \in Cells0(c)}
            /\ (Mapped(c) /\ solo = c) =>
                   \A k \in Cells0(c) :
                       /\ cards[k - 1].exists
                       /\ cards[k - 1].value = Transform[call[c].f][call[c].values0[k]]

\* C24 witness: a map has returned, alone, on a board with two pairs of equal
\* cards, one of them face up.
C24_Witness ==
    \E c \in DOMAIN call :
        /\ Mapped(c)
        /\ solo = c
        /\ Len(call[c].invoked) = 2
        /\ Cardinality(Cells0(c)) = 4
        /\ \E k \in 1 .. NCells : cards[k - 1].faceUp

\* C25: two cells that held equal values when a call of map was made and
\* still hold cards when it returns hold equal values then, whatever flips
\* and other maps have run in between.
C25_MapKeepsPairs ==
    \A c \in DOMAIN call :
        Mapped(c) =>
            \A x, y \in Cells0(c) :
                (/\ call[c].values0[x] = call[c].values0[y]
                 /\ cards[x - 1].exists
                 /\ cards[y - 1].exists) =>
                    cards[x - 1].value = cards[y - 1].value

\* C26: while a call of map is between its writes, no two face-up cells that
\* held equal values when the call was made show different values, so that
\* neither the match comparison of a flip nor a look can see them differ.
C26_NoTornPair ==
    \A c \in DOMAIN call :
        call[c].pc = "mapping" =>
            \A x, y \in Cells0(c) :
                (/\ call[c].values0[x] = call[c].values0[y]
                 /\ cards[x - 1].exists /\ cards[x - 1].faceUp
                 /\ cards[y - 1].exists /\ cards[y - 1].faceUp) =>
                    cards[x - 1].value = cards[y - 1].value

\* ------------------------------------------------------------- unknown players
\* The step is the call of map under the call slot c.
MapCall(c) ==
    /\ call[c].pc = "idle"
    /\ callsLeft' < callsLeft
    /\ call'[c].kind = "map"

\* The step is the call of flip under the call slot c.
FlipCall(c) ==
    /\ call[c].pc = "idle"
    /\ callsLeft' < callsLeft
    /\ call'[c].target # NoPos

\* The step is a step of a call of look under the call slot c.
LookStep(c) ==
    /\ call'[c].kind = "look"
    /\ IF call[c].pc = "idle"
       THEN callsLeft' < callsLeft
       ELSE <<call'[c].pc, call'[c].i>> # <<call[c].pc, call[c].i>>

\* C27: map called with an id that has no record fails with the
\* player-not-found error at once; the transform is not called, no card
\* changes, no player record is created and no pending watch is woken.
C27_MapUnknownPlayer ==
    [][\A c \in DOMAIN call :
          (MapCall(c) /\ ~Known(Owner(c))) =>
              /\ call'[c].pc = "idle"
              /\ call'[c].result = "player_not_found"
              /\ call'[c].invoked = << >>
              /\ cards' = cards
              /\ players' = players
              /\ playerTurnStack' = playerTurnStack
              /\ removalQueue' = removalQueue
              /\ watchQueue' = watchQueue
              /\ \A d \in DOMAIN call :
                     call'[d].pc = "watchWoken" => call[d].pc = "watchWoken"]_vars

\* C27 witness: a map has failed so while a watch was pending, and the watch
\* is pending still.
C27_Witness ==
    \E c \in DOMAIN call :
        /\ call[c].kind = "map"
        /\ call[c].result = "player_not_found"
        /\ ~Known(Owner(c))
        /\ watchQueue # << >>

\* C28: flip called with an id that has no record fails with the
\* player-not-found error at once and leaves every card, turn stack, removal
\* queue, player record and registry as it was.
C28_FlipUnknownPlayer ==
    [][\A c \in DOMAIN call :
          (FlipCall(c) /\ ~Known(Owner(c))) =>
              /\ call'[c].pc = "idle"
              /\ call'[c].result = "player_not_found"
              /\ UNCHANGED <<cards, players, playerTurnStack, removalQueue,
                             cardWaitQueue, watchQueue>>]_vars

\* C28 witness: a flip has failed so on a board with a card free to take.
C28_Witness ==
    \E c \in DOMAIN call :
        /\ call[c].kind = "unknown"
        /\ call[c].result = "player_not_found"
        /\ ~Known(Owner(c))
        /\ cards[Idx(call[c].target)].exists
        /\ ~cards[Idx(call[c].target)].isBusy

\* C29: flip called with an id that has no record creates the record, with an
\* empty turn stack and removal queue, and goes on as that player's
\* first-card flip instead of failing.
C29_FlipCreatesPlayer ==
    [][\A c \in DOMAIN call :
          (FlipCall(c) /\ ~Known(Owner(c))) =>
              /\ \E k \in 1 .. Len(players') : players'[k] = Owner(c)
              /\ Owner(c) \in DOMAIN playerTurnStack'
              /\ call'[c].result # "player_not_found"]_vars

\* The step is the call of look or watch under the call slot c.
ViewCall(c) ==
    /\ call[c].pc = "idle"
    /\ callsLeft' < callsLeft
    /\ call'[c].kind \in {"look", "watch"}

\* C29, amended: a player record is created the first time look or watch is
\* called with an unknown id, and by nothing else; flip called with an id that
\* has no record creates none and fails with the player-not-found error.
C29_OnlyLookAndWatchCreate ==
    [][/\ players' # players =>
             \E c \in DOMAIN call :
                 /\ ViewCall(c)
                 /\ ~Known(Owner(c))
                 /\ players' = Append(players, Owner(c))
       /\ \A c \in DOMAIN call :
             (ViewCall(c) /\ ~Known(Owner(c))) =>
                 /\ players' = Append(players, Owner(c))
                 /\ playerTurnStack'[Owner(c)] = << >>
                 /\ removalQueue'[Owner(c)] = << >>
       /\ \A c \in DOMAIN call :
             (FlipCall(c) /\ ~Known(Owner(c))) =>
                 /\ players' = players
                 /\ call'[c].result = "player_not_found"]_vars

\* C29 witness: a flip under an id without a record has failed, the records
\* being those of alice and bob as before.
C29_Witness ==
    \E c \in DOMAIN call :
        /\ call[c].kind = "unknown"
        /\ call[c].result = "player_not_found"
        /\ players = <<"alice", "bob">>
        /\ DOMAIN playerTurnStack = {"alice", "bob"}

\* No id has two player records.
OneRecordEach ==
    \A j, k \in 1 .. Len(players) : players[j] = players[k] => j = k

\* C30: a step of look(p) changes no card, no turn stack, no removal queue and
\* no registry; it either leaves the player records alone or, p being unknown,
\* adds the one record of p with an empty turn stack and removal queue; and
\* no id ever has two records, however look and watch calls under one id
\* repeat or overlap.
C30_LookOnlyAddsPlayer ==
    /\ []OneRecordEach
    /\ [][\A c \in DOMAIN call :
            LookStep(c) =>
                /\ UNCHANGED <<cards, cardWaitQueue, watchQueue>>
                /\ \A q \in DOMAIN playerTurnStack :
                       /\ playerTurnStack'[q] = playerTurnStack[q]
                       /\ removalQueue'[q] = removalQueue[q]
                /\ \/ UNCHANGED <<players, playerTurnStack, removalQueue>>
                   \/ /\ ~Known(Owner(c))
                      /\ players' = Append(players, Owner(c))
                      /\ playerTurnStack'[Owner(c)] = << >>
                      /\ removalQueue'[Owner(c)] = << >>]_vars

\* C30 witness: a look under an id that had no record has returned while
\* another call of look or watch under the same id is in flight.
C30_Witness ==
    \E c, d \in DOMAIN call :
        /\ c # d
        /\ Owner(c) = "carol" /\ Owner(d) = "carol"
        /\ call[c].kind = "look" /\ call[c].pc = "idle" /\ call[c].result = "ok"
        /\ call[d].kind \in {"look", "watch"} /\ call[d].pc # "idle"
        /\ Len(players) = 3

\* ------------------------------------------------------------------ card states
\* C36: every card on the board is Hidden, ControlledVisible or
\* UncontrolledVisible: no card is busy and face down.
C36_NoBusyFaceDown ==
    \A k \in CellIdx :
        cards[k].exists => ~(cards[k].isBusy /\ ~cards[k].faceUp)

\* C39: no position is both in a turn stack and in a removal queue, and no
\* position is in the removal queues of two players.
C39_StackAndQueuesApart ==
    /\ \A p, q \in DOMAIN playerTurnStack :
           Range(playerTurnStack[p]) \cap Range(removalQueue[q]) = {}
    /\ \A p, q \in DOMAIN removalQueue :
           p # q => Range(removalQueue[p]) \cap Range(removalQueue[q]) = {}

\* ------------------------------------------------------------------ map, frame
\* The step is a step of a call of map under the call slot c.
MapStep(c) ==
    \/ MapCall(c)
    \/ call[c].pc = "mapping" /\ call'[c] # call[c]

\* The step is one write of map: the next card of the entry k of slot c.
MapWrite(c, k) ==
    /\ call[c].pc = "mapping"
    /\ call'[c].pc = "mapping"
    /\ k \in 1 .. Len(call[c].groups)
    /\ call[c].groups[k].rest # << >>
    /\ call'[c].groups[k].rest = Tail(call[c].groups[k].rest)

\* C40: a step of map changes nothing but card values: every card keeps its
\* faceUp and busy flags and its existence, and the turn stacks, the removal
\* queues and the wait queues of the cells stay as they are; and the write of
\* a card reaches it whether it is face down, controlled or face up and free.
C40_MapChangesOnlyValues ==
    [][\A c \in DOMAIN call :
          /\ MapStep(c) =>
                /\ \A i \in CellIdx :
                       cards'[i] = [cards[i] EXCEPT !.value = cards'[i].value]
                /\ playerTurnStack' = playerTurnStack
                /\ removalQueue' = removalQueue
                /\ cardWaitQueue' = cardWaitQueue
          /\ \A k \in 1 .. NCells :
                MapWrite(c, k) =>
                    LET i == Head(call[c].groups[k].rest)
                    IN cards[i].exists =>
                           cards'[i].value = call[c].groups[k].new]_vars

\* C40 witness: a map has returned after it gave new values to a face-down
\* card, to a card a player controls and to a face-up card nobody controls.
C40_Witness ==
    \E c \in DOMAIN call :
        /\ Mapped(c)
        /\ \E i \in CellIdx :
              /\ cards[i].exists /\ ~cards[i].faceUp
              /\ cards[i].value # call[c].values0[i + 1]
        /\ \E i \in CellIdx :
              /\ cards[i].exists /\ cards[i].isBusy
              /\ cards[i].value # call[c].values0[i + 1]
        /\ \E i \in CellIdx :
              /\ cards[i].exists /\ cards[i].faceUp /\ ~cards[i].isBusy
              /\ cards[i].value # call[c].values0[i + 1]

\* ------------------------------------------------------------------ removal
\* The step is the first removeCard of processPreviousPair under the slot c:
\* the pair is the first two entries of the caller's turn stack.
RemovesFirst(c) ==
    /\ call[c].pc # "ppp4"
    /\ call'[c].pc = "ppp4"
    /\ Len(playerTurnStack[Owner(c)]) >= 2

\* The step is the second removeCard of processPreviousPair under the slot c.
RemovesSecond(c) ==
    /\ call[c].pc = "ppp4"
    /\ call'[c].pc # "ppp4"

\* C37: a cell becomes empty only in a step that removes a face-up card of a
\* pair held in the removing player's turn stack whose two cards were dealt the
\* same value (no step of this specification changes a value, so that they
\* were equal at the second flip); a face-down card is never removed; and an
\* empty cell stays empty.
C37_OnlyMatchedFaceUpRemoved ==
    [][\A pos \in AllPos :
          /\ ~cards[Idx(pos)].exists => ~cards'[Idx(pos)].exists
          /\ (cards[Idx(pos)].exists /\ ~cards'[Idx(pos)].exists) =>
                /\ cards[Idx(pos)].faceUp
                /\ \E c \in DOMAIN call :
                      \/ /\ RemovesFirst(c)
                         /\ pos = playerTurnStack[Owner(c)][1]
                         /\ call'[c].second = playerTurnStack[Owner(c)][2]
                         /\ Dealt(pos) = Dealt(call'[c].second)
                      \/ /\ RemovesSecond(c)
                         /\ pos = call[c].second]_vars

\* ------------------------------------------------------------------ watch, control
\* The number of entries of the call slot w in the watch queue.
Entries(wq, w) == Cardinality({k \in 1 .. Len(wq) : wq[k] = w})

\* C38: a change of control alone does not resolve a pending watch.  The return
\* of a flip wakes every pending watch; and a woken watch that compares its two
\* snapshots when no step since it was called has changed the existence, the
\* face or the face-up value of any cell goes back to waiting, with exactly one
\* entry of its own in the watch queue.
C38_ControlAloneKeepsWatching ==
    [][\A w \in DOMAIN call :
          /\ \A c \in DOMAIN call :
                (call[c].pc = "f11" /\ call'[c].pc = "idle" /\ w \in Pending(Cur)) =>
                    /\ call'[w].pc = "watchWoken"
                    /\ watchQueue' = << >>
          /\ (call[w].pc = "wcmp" /\ call'[w].pc # "wcmp" /\ ~call[w].moved) =>
                /\ call'[w].pc = "watching"
                /\ Entries(watchQueue, w) = 0
                /\ watchQueue' = Append(watchQueue, w)]_vars

\* C38 witness: a watch is waiting again, after it was woken by a first-card
\* flip of its own player that took a card already face up, and nothing but
\* control has changed since the watch was called.
C38_Witness ==
    \E w \in DOMAIN call :
        /\ call[w].kind = "watch"
        /\ call[w].pc = "watching"
        /\ call[w].taken
        /\ ~call[w].moved
        /\ Entries(watchQueue, w) = 1
        /\ \E pos \in Range(playerTurnStack[Owner(w)]) :
              cards[Idx(pos)].faceUp /\ cards[Idx(pos)].isBusy

\* ------------------------------------------------------------------ look, lines
\* A call of look that has returned its lines.
Looked(c) ==
    /\ call[c].kind = "look"
    /\ call[c].pc = "idle"
    /\ call[c].result = "ok"

\* The lines a call of look may return for a cell.
Spots == {<<"none", "">>, <<"down", "?">>}
             \cup {<<w, v>> : w \in {"my", "up"}, v \in Values}

\* C31: look(p) returns the header `RxC` and then one line for each cell, in
\* row-major order, each of them `none`, `down ?`, `my V` or `up V` with V a
\* card value; and when no step of another call has run since the call was
\* made, the line of a cell is `none` exactly if the cell is empty, `down ?`
\* exactly if its card is face down, `my V` exactly if the card is face up with
\* value V and the position is in p's turn stack, and `up V` otherwise.
C31_LookLines ==
    \A c \in DOMAIN call :
        Looked(c) =>
            /\ Len(call[c].view) = 1 + Rows * Cols
            /\ call[c].view[1] = <<"2x2", "">>
            /\ \A k \in 1 .. Rows * Cols : call[c].view[k + 1] \in Spots
            /\ solo = c =>
                  \A pos \in AllPos :
                      LET line == call[c].view[2 + pos[1] * Cols + pos[2]]
                          card == cards[Idx(pos)]
                          mine == pos \in Range(playerTurnStack[Owner(c)])
                      IN /\ line = <<"none", "">> <=> ~card.exists
                         /\ line = <<"down", "?">> <=> card.exists /\ ~card.faceUp
                         /\ line[1] = "my" <=> card.exists /\ card.faceUp /\ mine
                         /\ line[1] = "up" <=> card.exists /\ card.faceUp /\ ~mine
                         /\ line[1] \in {"my", "up"} => line[2] = card.value

\* ------------------------------------------------------------------ positions
\* The step is a step of a flip with a position outside the board, under the
\* call slot c: the call itself, or a step of a call that is not suspended.
StrayStep(c) ==
    \/ FlipCall(c) /\ call'[c].target \in StrayPos
    \/ /\ call[c].target \in StrayPos
       /\ call[c].pc \notin {"idle", "suspended"}
       /\ call'[c].pc # call[c].pc

\* C32: a flip with a position outside the board never returns normally, and
\* no step of it changes a card, a turn stack or a removal queue; so a column
\* past the end of a row never reaches a card of the next row.
C32_StrayFlipFails ==
    /\ [](\A c \in DOMAIN call :
             (call[c].pc = "idle" /\ call[c].target \in StrayPos) =>
                 call[c].result \in {"not_found", "not_available", "player_not_found"})
    /\ [][\A c \in DOMAIN call :
             StrayStep(c) =>
                 /\ cards' = cards
                 /\ playerTurnStack' = playerTurnStack
                 /\ removalQueue' = removalQueue]_vars

\* ------------------------------------------------------------------ construction
\* C33: a construction with rows <= 0, columns <= 0 or a number of cards other
\* than rows * columns fails, so that a board whose construction succeeded has
\* rows > 0, columns > 0 and rows * columns cells; and no later step changes
\* the size or the number of cells of the registered board, a removal
\* included.
C33_SizeAndGrid ==
    /\ [](outcome = [op |-> "construct", result |-> "ok"] =>
             /\ instance[1].row > 0
             /\ instance[1].col > 0
             /\ Cardinality(DOMAIN cards) = instance[1].row * instance[1].col)
    /\ [][instance # << >> =>
             /\ instance' = instance
             /\ DOMAIN cards' = DOMAIN cards]_vars

\* C33 witness: a construction with positive rows and columns and one card
\* too few has just failed.
C33_Witness ==
    /\ outcome = [op |-> "construct", result |-> "invalid"]
    /\ instance[1].row > 0
    /\ instance[1].col > 0
    /\ Cardinality(DOMAIN cards) # instance[1].row * instance[1].col

\* C34: while a board is registered, a call of the constructor ends with the
\* board-already-exists error and leaves the registered instance, its cards,
\* its players, their turn stacks and removal queues and the two registries
\* as they were.
C34_SecondBoardRefused ==
    [][(instance # << >> /\ outcome'.op = "construct") =>
          /\ outcome'.result = "already_exists"
          /\ UNCHANGED <<instance, cards, players, playerTurnStack, removalQueue,
                         cardWaitQueue, watchQueue>>]_vars

\* C34 witness: a construction has just been refused while a card of the
\* registered board is face up and controlled.
C34_Witness ==
    /\ outcome = [op |-> "construct", result |-> "already_exists"]
    /\ Playable
    /\ \E i \in CellIdx : cards[i].faceUp /\ cards[i].isBusy

\* C35: a construction refused for its size or its number of cards leaves no
\* board registered.
C35_FailedBuildRegistersNothing ==
    outcome = [op |-> "construct", result |-> "invalid"] => instance = << >>
====
